---------------------------- MODULE Spec2Model ----------------------------
(***************************************************************************)
(* serde_fs: a serde backend that stores a value as a directory tree.      *)
(*                                                                         *)
(* Text (file content, path segments) is a sequence of one-character       *)
(* strings, so that formatting and parsing are computed, not assumed.      *)
(* A path is the sequence of segments pushed below the root handed to      *)
(* to_fs / from_fs; <<>> is that root itself.  Storage is a function from  *)
(* the paths that exist to a node (a file with its content, or a           *)
(* directory).                                                             *)
(*                                                                         *)
(* Serializer and Deserializer methods are operators over a state record;  *)
(* `status` is "ok", "panic" (the process halted) or the name of the       *)
(* returned error variant.  The `?` operator of the source is the leading  *)
(* status test of each operator.                                           *)
(***************************************************************************)
EXTENDS Integers, Sequences, FiniteSets, TLC

VARIABLES fs, ser, de, last, before

vars == <<fs, ser, de, last, before>>

RECURSIVE itoa_digits(_)
RECURSIVE parse_digits(_, _)
RECURSIVE SetToSeq(_)
RECURSIVE StripZeros(_)
RECURSIVE follow(_, _, _)
RECURSIVE components(_, _)
RECURSIVE Resolve(_, _)
RECURSIVE StripTrailingZeros(_)
RECURSIVE Serialize(_, _)
RECURSIVE SerializeElements(_, _, _)
RECURSIVE SerializeEntries(_, _, _)
RECURSIVE SerializeStructFields(_, _, _)
RECURSIVE SerializeVariantFields(_, _, _)
RECURSIVE json_to_string(_)
RECURSIVE JsonElements(_, _)
RECURSIVE JsonFields(_, _)
RECURSIVE JsonEntries(_, _)
RECURSIVE ValuesOf(_)
RECURSIVE ProductOf(_, _)
RECURSIVE FieldsOf(_, _)
RECURSIVE De(_, _)
RECURSIVE VisitSeqVec(_, _)
RECURSIVE VisitSeqTuple(_, _)
RECURSIVE VisitMapMap(_, _)
RECURSIVE VisitMapStruct(_, _)
RECURSIVE VisitEnum(_, _, _)

----------------------------------------------------------------------------
(* Bounds of the checked instance *)

\* longest sequence value handed to to_fs
MaxSeqLen == 2

\* highest element index a prepared tree may hold
MaxIndex == 4

\* number of Serializer method calls made one by one
MaxCalls == 4

----------------------------------------------------------------------------
(* Text *)

Digits == <<"0", "1", "2", "3", "4", "5", "6", "7", "8", "9">>

NUL == "\\0"

DigitValue(c) == CHOOSE d \in 0..9 : Digits[d + 1] = c

IsDigit(c) == \E d \in 1..10 : Digits[d] = c

starts_with(s, prefix) ==
    /\ Len(s) >= Len(prefix)
    /\ SubSeq(s, 1, Len(prefix)) = prefix

\* itoa::write of a non-negative number: its decimal digits
itoa_digits(n) ==
    IF n < 10 THEN <<Digits[n + 1]>>
    ELSE itoa_digits(n \div 10) \o <<Digits[(n % 10) + 1]>>

\* itoa::write: decimal text, a leading minus sign for negative numbers
itoa(n) == IF n < 0 THEN <<"-">> \o itoa_digits(0 - n) ELSE itoa_digits(n)

\* value of a string of digits read left to right (acc is the value so far)
parse_digits(s, acc) ==
    IF s = <<>> THEN acc
    ELSE parse_digits(Tail(s), acc * 10 + DigitValue(Head(s)))

\* position of the first "." of a text, or 0
dot_position(s) ==
    IF \E i \in 1..Len(s) : s[i] = "."
    THEN CHOOSE i \in 1..Len(s) : s[i] = "." /\ \A j \in 1..(i - 1) : s[j] # "."
    ELSE 0

StripTrailingZeros(s) ==
    IF s # <<>> /\ s[Len(s)] = "0" THEN StripTrailingZeros(SubSeq(s, 1, Len(s) - 1)) ELSE s

\* f32/f64 to_string of a float given by sign, the digits of the integer
\* part and the digits of the fraction: the shortest decimal text, without
\* exponent, and without a fraction when the fraction is zero
to_string(v) ==
    (IF v.neg THEN <<"-">> ELSE <<>>) \o v.int
        \o (IF v.frac = <<>> THEN <<>> ELSE <<".">> \o v.frac)

\* str::parse::<f32/f64>, for texts without exponent: an optional sign,
\* then digits with an optional "." among them, at least one digit in all
\* (the checked texts hold no exponent and none of "inf", "nan")
parse_float(s) ==
    LET signed == s # <<>> /\ Head(s) \in {"+", "-"}
        body == IF signed THEN Tail(s) ELSE s
        dot == dot_position(body)
        int == IF dot = 0 THEN body ELSE SubSeq(body, 1, dot - 1)
        frac == IF dot = 0 THEN <<>> ELSE SubSeq(body, dot + 1, Len(body))
        wellformed ==
            /\ Len(int) + Len(frac) > 0
            /\ \A i \in 1..Len(int) : IsDigit(int[i])
            /\ \A i \in 1..Len(frac) : IsDigit(frac[i])
    IN  IF wellformed
        THEN [ok |-> TRUE, neg |-> signed /\ Head(s) = "-",
              int |-> IF int = <<>> THEN <<"0">> ELSE StripZeros(int),
              frac |-> StripTrailingZeros(frac)]
        ELSE [ok |-> FALSE, neg |-> FALSE, int |-> <<"0">>, frac |-> <<>>]

IntTypes == {"i8", "i16", "i32", "i64", "u8", "u16", "u32", "u64"}

IsSigned(ty) == ty \in {"i8", "i16", "i32", "i64"}

\* the digits of the largest value of an integer type
MaxDigits(ty) ==
    CASE ty = "i8" -> <<"1", "2", "7">>
      [] ty = "i16" -> <<"3", "2", "7", "6", "7">>
      [] ty = "i32" -> <<"2", "1", "4", "7", "4", "8", "3", "6", "4", "7">>
      [] ty = "i64" ->
            <<"9", "2", "2", "3", "3", "7", "2", "0", "3", "6", "8", "5", "4", "7", "7", "5", "8", "0", "7">>
      [] ty = "u8" -> <<"2", "5", "5">>
      [] ty = "u16" -> <<"6", "5", "5", "3", "5">>
      [] ty = "u32" -> <<"4", "2", "9", "4", "9", "6", "7", "2", "9", "5">>
      [] OTHER ->
            <<"1", "8", "4", "4", "6", "7", "4", "4", "0", "7", "3", "7", "0", "9", "5", "5", "1", "6", "1", "5">>

\* the digits of the magnitude of the smallest value of a signed type
MinDigits(ty) ==
    CASE ty = "i8" -> <<"1", "2", "8">>
      [] ty = "i16" -> <<"3", "2", "7", "6", "8">>
      [] ty = "i32" -> <<"2", "1", "4", "7", "4", "8", "3", "6", "4", "8">>
      [] OTHER ->
            <<"9", "2", "2", "3", "3", "7", "2", "0", "3", "6", "8", "5", "4", "7", "7", "5", "8", "0", "8">>

StripZeros(s) == IF Len(s) > 1 /\ Head(s) = "0" THEN StripZeros(Tail(s)) ELSE s

\* a <= b, for two digit strings without leading zeros
LeqDigits(a, b) ==
    \/ Len(a) < Len(b)
    \/ /\ Len(a) = Len(b)
       /\ \/ a = b
          \/ \E i \in 1..Len(a) :
                /\ SubSeq(a, 1, i - 1) = SubSeq(b, 1, i - 1)
                /\ DigitValue(a[i]) < DigitValue(b[i])

\* str::parse::<integer type>: an optional sign (minus only for signed
\* types), then at least one digit, nothing else; the number must fit the
\* type.  The fit is decided on the digits, so that it is exact for the
\* 64-bit types too.
parse_int(s, ty) ==
    LET signed == s # <<>> /\ Head(s) \in {"+", "-"}
        body == IF signed THEN Tail(s) ELSE s
        neg == signed /\ Head(s) = "-"
        wellformed ==
            /\ body # <<>>
            /\ \A i \in 1..Len(body) : IsDigit(body[i])
            /\ neg => IsSigned(ty)
        digits == StripZeros(body)
        fits == LeqDigits(digits, IF neg THEN MinDigits(ty) ELSE MaxDigits(ty))
    IN  IF wellformed /\ fits
        THEN [ok |-> TRUE, n |-> IF neg THEN 0 - parse_digits(digits, 0)
                                 ELSE parse_digits(digits, 0)]
        ELSE [ok |-> FALSE, n |-> 0]

----------------------------------------------------------------------------
(* Storage *)

FileNode(data) == [kind |-> "file", data |-> data]

DirNode == [kind |-> "dir", data |-> <<>>]

\* a symbolic link; data is the text of its target, a path relative to the
\* directory holding the link
LinkNode(target) == [kind |-> "link", data |-> target]

EmptyFs == [p \in {} |-> DirNode]

Exists(f, p) == p \in DOMAIN f

IsFile(f, p) == Exists(f, p) /\ f[p].kind = "file"

IsDir(f, p) == Exists(f, p) /\ f[p].kind = "dir"

Parent(p) == IF p = <<>> THEN <<>> ELSE SubSeq(p, 1, Len(p) - 1)

Prefixes(p) == {SubSeq(p, 1, n) : n \in 0..Len(p)}

IsPrefix(p, q) == Len(p) <= Len(q) /\ SubSeq(q, 1, Len(p)) = p

Children(f, p) == {q[Len(q)] : q \in {r \in DOMAIN f : Len(r) = Len(p) + 1 /\ IsPrefix(p, r)}}

\* the segments of a path text, separated by "/"
components(text, seg) ==
    IF text = <<>> THEN <<seg>>
    ELSE IF Head(text) = "/" THEN <<seg>> \o components(Tail(text), <<>>)
    ELSE components(Tail(text), Append(seg, Head(text)))

\* the path that `p` names once every symbolic link on the way is followed;
\* `hops` bounds the links followed, as the kernel does
follow(f, p, hops) ==
    LET links == {n \in 1..Len(p) : Exists(f, SubSeq(p, 1, n)) /\ f[SubSeq(p, 1, n)].kind = "link"}
        first == CHOOSE n \in links : \A m \in links : n <= m
    IN  IF links = {} THEN [found |-> TRUE, path |-> p]
        ELSE IF hops = 0 THEN [found |-> FALSE, path |-> p]
        ELSE follow(f, SubSeq(p, 1, first - 1) \o components(f[SubSeq(p, 1, first)].data, <<>>)
                           \o SubSeq(p, first + 1, Len(p)), hops - 1)

\* fs::metadata: what the path names after following links (never a link)
metadata(f, p) ==
    LET to == follow(f, p, Cardinality(DOMAIN f))
    IN  IF to.found /\ Exists(f, to.path) THEN [kind |-> f[to.path].kind, at |-> to.path]
        ELSE [kind |-> "none", at |-> p]

\* fs::read, following links
fs_read(f, p) ==
    LET m == metadata(f, p)
    IN  IF m.kind = "file" THEN [status |-> "ok", v |-> f[m.at].data]
        ELSE [status |-> "IoError", v |-> <<>>]

\* fs::read_dir, following links: the names of the entries
read_dir(f, p) ==
    LET m == metadata(f, p)
    IN  IF m.kind = "dir" THEN [status |-> "ok", v |-> Children(f, m.at)]
        ELSE [status |-> "IoError", v |-> {}]

(* A PathBuf is the root's own path followed by the components pushed on   *)
(* it.  The model writes a path as the sequence of the components after    *)
(* the root's, so that <<>> is the root, with three components that are    *)
(* not names:                                                              *)
(*   ParentDir  the component "..";                                        *)
(*   RootDir    the first component of an absolute path;                   *)
(*   Holder     stands for one component of the root's own path removed:   *)
(*              <<Holder>> is the directory that holds the root;           *)
(* and an empty last component for a trailing separator.                   *)
ParentDir == <<".", ".">>

RootDir == <<"/">>

Holder == <<"^">>

Last(p) == p[Len(p)]

Front(p) == SubSeq(p, 1, Len(p) - 1)

\* Path::components: the names between separators; empty ones and "." drop
Names(text) == SelectSeq(components(text, <<>>), LAMBDA c : c # <<>> /\ c # <<".">>)

TrailingSeparator(p) == p # <<>> /\ Last(p) = <<>>

WithoutTrailingSeparator(p) == IF TrailingSeparator(p) THEN Front(p) ELSE p

\* PathBuf::push: an absolute text replaces the path, any other text is
\* appended after a separator
PathBuf_push(path, text) ==
    (IF text # <<>> /\ Head(text) = "/" THEN <<RootDir>> ELSE WithoutTrailingSeparator(path))
        \o Names(text)
        \o (IF text = <<>> \/ (Last(text) = "/" /\ Names(text) # <<>>) THEN <<<<>>>> ELSE <<>>)

\* Path::parent: the path without its last component, None for "/"
Path_parent(path) ==
    LET p == WithoutTrailingSeparator(path)
    IN  IF p = <<RootDir>> THEN [some |-> FALSE, path |-> path]
        ELSE IF p = <<>> \/ Last(p) = Holder THEN [some |-> TRUE, path |-> Append(p, Holder)]
        ELSE [some |-> TRUE, path |-> Front(p)]

\* PathBuf::pop: truncates to the parent, if there is one
PathBuf_pop(path) == Path_parent(path).path

\* the location a path names: each ".." leaves the directory reached so far
Resolve(p, acc) ==
    IF p = <<>> THEN acc
    ELSE Resolve(Tail(p),
                 IF Head(p) = <<>> THEN acc
                 ELSE IF Head(p) # ParentDir THEN Append(acc, Head(p))
                 ELSE IF acc = <<RootDir>> THEN acc
                 ELSE IF acc = <<>> \/ Last(acc) = Holder THEN Append(acc, Holder)
                 ELSE Front(acc))

\* the directories above the root, and "/": they exist and are not stored
Outer(at) == at # <<>> /\ (at = <<RootDir>> \/ \A i \in 1..Len(at) : at[i] = Holder)

\* the locations of a path's leading parts, the stored ones
Ancestors(dir) ==
    {Resolve(SubSeq(dir, 1, n), <<>>) :
        n \in (IF dir # <<>> /\ Head(dir) \in {RootDir, Holder} THEN 1 ELSE 0)..Len(dir)}
      \ {at \in {Resolve(SubSeq(dir, 1, n), <<>>) : n \in 1..Len(dir)} : Outer(at)}

\* fs::create_dir_all: fails, changing nothing, when a component of `dir`
\* is a file ("AlreadyExists" when `dir` itself is that file); otherwise
\* every missing component becomes a directory.
create_dir_all(f, dir) ==
    IF IsFile(f, Resolve(dir, <<>>)) THEN [err |-> "AlreadyExists", fs |-> f]
    ELSE IF \E q \in Ancestors(dir) : IsFile(f, q) THEN [err |-> "NotADirectory", fs |-> f]
    ELSE [err |-> "", fs |-> [q \in DOMAIN f \cup Ancestors(dir) |-> IF q \in DOMAIN f THEN f[q] ELSE DirNode]]

\* fs::write: creates or truncates the file; fails when the path ends in a
\* separator, when the parent is not a directory or when the path is a
\* directory.
fs_write(f, p, data) ==
    LET at == Resolve(p, <<>>)
    IN  IF TrailingSeparator(p) \/ Outer(at) THEN [err |-> "IsADirectory", fs |-> f]
        ELSE IF at # <<>> /\ ~Outer(Parent(at)) /\ ~IsDir(f, Parent(at))
        THEN [err |-> "NotADirectory", fs |-> f]
        ELSE IF IsDir(f, at) THEN [err |-> "IsADirectory", fs |-> f]
        ELSE [err |-> "", fs |-> [q \in DOMAIN f \cup {at} |-> IF q = at THEN FileNode(data) ELSE f[q]]]

----------------------------------------------------------------------------
(* Serializer (ser.rs) *)

\* The trace is a record of the calls made, kept for stating properties of
\* the traversal; no operator reads it.
Event(op, kind, st, data, ref) ==
    [op |-> op, kind |-> kind, path |-> st.path, level |-> st.dir_level,
     data |-> data, ref |-> ref]

Log(st, op, kind, data) == [st EXCEPT !.trace = Append(@, Event(op, kind, st, data, 0))]

Fail(st, e) == [st EXCEPT !.status = e]

Serializer_new(f) ==
    [fs |-> f, path |-> <<>>, path_dirty |-> FALSE, dir_level |-> 0,
     status |-> "ok", trace |-> <<>>]

\* a variant of write_data that removes the root when the write fails
write_data_cleaning_up(st, s) ==
    IF st.status # "ok" THEN st
    ELSE IF st.path_dirty THEN Fail(st, "panic")
    ELSE IF ~(st.dir_level > 0) THEN Fail(st, "panic")
    ELSE IF ~Path_parent(st.path).some THEN Fail(st, "panic")
    ELSE LET made == create_dir_all(st.fs, Path_parent(st.path).path)
         IN  IF made.err \notin {"", "AlreadyExists"} THEN Fail(st, "IoError")
             ELSE LET wrote == fs_write(made.fs, st.path, s)
                  IN  IF wrote.err # "" THEN Fail([st EXCEPT !.fs = EmptyFs], "IoError")
                      ELSE Log([st EXCEPT !.fs = wrote.fs, !.path_dirty = TRUE],
                               "write", "", s)

write_data(st, s) ==
    IF st.status # "ok" THEN st
    ELSE IF st.path_dirty THEN Fail(st, "panic")
    ELSE IF ~(st.dir_level > 0) THEN Fail(st, "panic")
    ELSE IF ~Path_parent(st.path).some THEN Fail(st, "panic")
    ELSE LET made == create_dir_all(st.fs, Path_parent(st.path).path)
         IN  IF made.err \notin {"", "AlreadyExists"} THEN Fail(st, "IoError")
             ELSE LET wrote == fs_write(made.fs, st.path, s)
                  IN  IF wrote.err # "" THEN Fail([st EXCEPT !.fs = made.fs], "IoError")
                      ELSE Log([st EXCEPT !.fs = wrote.fs, !.path_dirty = TRUE],
                               "write", "", s)

\* a variant of push that clears the dirty flag
push_clearing_dirty(st, segment) ==
    IF st.status # "ok" THEN st
    ELSE Log([st EXCEPT !.path = PathBuf_push(@, segment), !.dir_level = @ + 1,
                        !.path_dirty = FALSE],
             "push", "", segment)

push(st, segment) ==
    IF st.status # "ok" THEN st
    ELSE Log([st EXCEPT !.path = PathBuf_push(@, segment), !.dir_level = @ + 1],
             "push", "", segment)

\* a variant of pop that leaves the dirty flag as it is
pop_keeping_dirty(st) ==
    IF st.status # "ok" THEN st
    ELSE Log([st EXCEPT !.path = PathBuf_pop(@), !.dir_level = @ - 1], "pop", "", <<>>)

pop(st) ==
    IF st.status # "ok" THEN st
    ELSE Log([st EXCEPT !.path = PathBuf_pop(@), !.dir_level = @ - 1, !.path_dirty = FALSE],
             "pop", "", <<>>)

fail_if_at_root(st) ==
    IF st.status # "ok" THEN st
    ELSE IF st.dir_level = 0 THEN Fail(st, "NotSupportedAtRootLevel")
    ELSE st

serialize_bool(st, v) ==
    write_data(st, IF v THEN <<"t", "r", "u", "e">> ELSE <<"f", "a", "l", "s", "e">>)

serialize_i64(st, v) == write_data(fail_if_at_root(st), itoa(v))

serialize_i8(st, v) == serialize_i64(fail_if_at_root(st), v)

serialize_i16(st, v) == serialize_i64(fail_if_at_root(st), v)

serialize_i32(st, v) == serialize_i64(fail_if_at_root(st), v)

serialize_u64(st, v) == write_data(fail_if_at_root(st), itoa(v))

serialize_u8(st, v) == serialize_u64(fail_if_at_root(st), v)

serialize_u16(st, v) == serialize_u64(fail_if_at_root(st), v)

serialize_u32(st, v) == serialize_u64(fail_if_at_root(st), v)

serialize_f32(st, v) == write_data(fail_if_at_root(st), to_string(v))

serialize_f64(st, v) == write_data(fail_if_at_root(st), to_string(v))

\* number of bytes of the UTF-8 encoding of a character of the checked set
len_utf8(c) == IF c = "U+00E9" THEN 2 ELSE 1

\* the 8-byte buffer is written whole: the character, then zero bytes
serialize_char(st, v) ==
    write_data(fail_if_at_root(st), <<v>> \o [i \in 1..(8 - len_utf8(v)) |-> NUL])

serialize_str(st, v) == write_data(fail_if_at_root(st), v)

serialize_bytes(st, v) == write_data(fail_if_at_root(st), v)

serialize_unit(st) == write_data(fail_if_at_root(st), <<>>)

\* a variant of serialize_none that writes nothing
serialize_none_as_nop(st) == fail_if_at_root(st)

serialize_none(st) == serialize_unit(fail_if_at_root(st))

serialize_some(st, value) == Serialize(st, value)

serialize_unit_struct(st) == serialize_unit(fail_if_at_root(st))

\* a variant of serialize_unit_variant that gives the variant its own segment
serialize_unit_variant_in_segment(st, variant) ==
    pop(serialize_unit(push(fail_if_at_root(st), variant)))

serialize_unit_variant(st, variant) == serialize_str(fail_if_at_root(st), variant)

serialize_newtype_struct(st, value) == Serialize(st, value)

serialize_newtype_variant(st, variant, value) == pop(Serialize(push(st, variant), value))

SequentialSerializer_new(st) == [index |-> 0, ser |-> st]

\* SequentialSerializer::serialize: one element, under the decimal index
Advance(index, after) ==
    [index |-> IF after.status # "ok" THEN index ELSE index + 1, ser |-> after]

SequentialSerializer_serialize(sq, value) ==
    Advance(sq.index, pop(Serialize(push(sq.ser, itoa(sq.index)), value)))

\* the serde traversal of a sequence: one serialize_element call per
\* element, in order, stopping at the first error
SerializeElements(sq, elems, i) ==
    IF i > Len(elems) \/ sq.ser.status # "ok" THEN sq
    ELSE SerializeElements(SequentialSerializer_serialize(sq, elems[i]), elems, i + 1)

\* a variant of serialize_seq that empties the sequence's directory first
serialize_seq_replacing(st, elems) ==
    IF st.status # "ok" THEN st
    ELSE SerializeElements(
            SequentialSerializer_new(
                [st EXCEPT !.fs = [p \in {q \in DOMAIN st.fs : ~(IsPrefix(st.path, q) /\ q # st.path)}
                                    |-> st.fs[p]]]),
            elems, 1).ser

\* serialize_seq / serialize_tuple / serialize_tuple_struct, the element
\* calls, and end (which does nothing)
serialize_seq(st, elems) ==
    IF st.status # "ok" THEN st
    ELSE SerializeElements(SequentialSerializer_new(st), elems, 1).ser

\* serialize_tuple_variant pushes the variant name; neither the element
\* calls nor SerializeTupleVariant::end pop it
serialize_tuple_variant(st, variant, elems) ==
    IF st.status # "ok" THEN st
    ELSE SerializeElements(SequentialSerializer_new(push(st, variant)), elems, 1).ser


\* an arbitrary fixed enumeration of a finite set
SetToSeq(S) ==
    IF S = {} THEN <<>>
    ELSE LET x == CHOOSE y \in S : TRUE IN <<x>> \o SetToSeq(S \ {x})

(* serde_json::to_string, for the value shapes of the checked instance.   *)
(* The checked strings hold no character that JSON escapes.                *)
JsonQuote(s) == <<"\"">> \o s \o <<"\"">>

JsonElements(elems, i) ==
    IF i > Len(elems) THEN <<>>
    ELSE (IF i > 1 THEN <<",">> ELSE <<>>) \o json_to_string(elems[i]) \o JsonElements(elems, i + 1)

JsonFields(fields, i) ==
    IF i > Len(fields) THEN <<>>
    ELSE (IF i > 1 THEN <<",">> ELSE <<>>) \o JsonQuote(fields[i].name) \o <<":">>
         \o json_to_string(fields[i].v) \o JsonFields(fields, i + 1)

JsonKey(key) ==
    CASE key.k = "str" -> key.s
      [] key.k = "int" -> itoa(key.n)
      [] key.k = "float" -> to_string(key) \o (IF key.frac = <<>> THEN <<".", "0">> ELSE <<>>)
      [] key.k = "char" -> <<key.c>>
      [] key.k = "bool" -> IF key.b THEN <<"t", "r", "u", "e">> ELSE <<"f", "a", "l", "s", "e">>
      [] OTHER -> key.variant

JsonEntries(m, keys) ==
    IF keys = <<>> THEN <<>>
    ELSE JsonQuote(JsonKey(Head(keys))) \o <<":">> \o json_to_string(m[Head(keys)])
         \o (IF Len(keys) > 1 THEN <<",">> ELSE <<>>) \o JsonEntries(m, Tail(keys))

json_to_string(v) ==
    CASE v.k = "bool" -> IF v.b THEN <<"t", "r", "u", "e">> ELSE <<"f", "a", "l", "s", "e">>
      [] v.k = "int" -> itoa(v.n)
      [] v.k = "char" -> JsonQuote(<<v.c>>)
      [] v.k = "str" -> JsonQuote(v.s)
      [] v.k = "float" -> to_string(v) \o (IF v.frac = <<>> THEN <<".", "0">> ELSE <<>>)
      [] v.k \in {"unit", "none", "unit_struct"} -> <<"n", "u", "l", "l">>
      [] v.k = "some" -> json_to_string(v.v)
      [] v.k = "unit_variant" -> JsonQuote(v.variant)
      [] v.k = "newtype_variant" ->
            <<"{">> \o JsonQuote(v.variant) \o <<":">> \o json_to_string(v.v) \o <<"}">>
      [] v.k \in {"seq", "tuple"} -> <<"[">> \o JsonElements(v.elems, 1) \o <<"]">>
      [] v.k = "tuple_variant" ->
            <<"{">> \o JsonQuote(v.variant) \o <<":", "[">> \o JsonElements(v.elems, 1) \o <<"]", "}">>
      [] v.k = "map" -> <<"{">> \o JsonEntries(v.m, SetToSeq(DOMAIN v.m)) \o <<"}">>
      [] v.k = "struct" -> <<"{">> \o JsonFields(v.fields, 1) \o <<"}">>
      [] OTHER ->
            <<"{">> \o JsonQuote(v.variant) \o <<":", "{">> \o JsonFields(v.fields, 1) \o <<"}", "}">>

(* StringSerializer: the text of a map key.  Only bool, integer, float,    *)
(* char, str and unit-variant keys are supported; any other key shape      *)
(* reaches unsupported(), which panics.                                    *)
StringSerializer_serialize(key) ==
    CASE key.k = "bool" ->
            [status |-> "ok", s |-> IF key.b THEN <<"t", "r", "u", "e">> ELSE <<"f", "a", "l", "s", "e">>]
      [] key.k = "int" -> [status |-> "ok", s |-> itoa(key.n)]
      [] key.k = "float" -> [status |-> "ok", s |-> to_string(key)]
      [] key.k = "char" -> [status |-> "ok", s |-> <<key.c>>]
      [] key.k = "str" -> [status |-> "ok", s |-> key.s]
      [] key.k = "unit_variant" -> [status |-> "ok", s |-> key.variant]
      [] OTHER -> [status |-> "panic", s |-> <<>>]

serialize_key(st, key) ==
    IF st.status # "ok" THEN st
    ELSE LET name == StringSerializer_serialize(key)
         IN  IF name.status # "ok" THEN Fail(st, name.status) ELSE push(st, name.s)

serialize_value(st, value) == pop(Serialize(st, value))

\* the serde traversal of a map: serialize_key then serialize_value for
\* each entry in the map's iteration order; end does nothing
SerializeEntries(st, m, keys) ==
    IF keys = <<>> \/ st.status # "ok" THEN st
    ELSE SerializeEntries(serialize_value(serialize_key(st, Head(keys)), m[Head(keys)]),
                          m, Tail(keys))

serialize_map(st, m) == SerializeEntries(st, m, SetToSeq(DOMAIN m))

JsonMarker == <<"j", "s", "o", "n">>

\* a variant of SerializeStruct::serialize_field without the json marker
SerializeStruct_serialize_field_unmarked(st, key, value) ==
    pop(Serialize(push(st, key), value))

SerializeStruct_serialize_field(st, key, value) ==
    LET pushed == push(st, key)
    IN  IF starts_with(key, JsonMarker)
        THEN pop(serialize_str(pushed, json_to_string(value)))
        ELSE pop(Serialize(pushed, value))

SerializeStructFields(st, fields, i) ==
    IF i > Len(fields) \/ st.status # "ok" THEN st
    ELSE SerializeStructFields(
            SerializeStruct_serialize_field(st, fields[i].name, fields[i].v), fields, i + 1)

\* serialize_struct, one serialize_field per declared field, end
serialize_struct(st, fields) == SerializeStructFields(st, fields, 1)

SerializeStructVariant_serialize_field(st, key, value) ==
    LET pushed == push(st, key)
    IN  IF starts_with(key, JsonMarker)
        THEN pop(serialize_str(pushed, json_to_string(value)))
        ELSE pop(Serialize(pushed, value))

SerializeVariantFields(st, fields, i) ==
    IF i > Len(fields) \/ st.status # "ok" THEN st
    ELSE SerializeVariantFields(
            SerializeStructVariant_serialize_field(st, fields[i].name, fields[i].v), fields, i + 1)

SerializeStructVariant_end(st) == pop(st)

\* serialize_struct_variant pushes the variant name; end pops it
serialize_struct_variant(st, variant, fields) ==
    SerializeStructVariant_end(SerializeVariantFields(push(st, variant), fields, 1))

\* value.serialize(serializer): the call serde makes for each value shape
Dispatch(st, v) ==
    CASE v.k = "bool" -> serialize_bool(st, v.b)
      [] v.k = "int" /\ v.ty = "i8" -> serialize_i8(st, v.n)
      [] v.k = "int" /\ v.ty = "i16" -> serialize_i16(st, v.n)
      [] v.k = "int" /\ v.ty = "i32" -> serialize_i32(st, v.n)
      [] v.k = "int" /\ v.ty = "i64" -> serialize_i64(st, v.n)
      [] v.k = "int" /\ v.ty = "u8" -> serialize_u8(st, v.n)
      [] v.k = "int" /\ v.ty = "u16" -> serialize_u16(st, v.n)
      [] v.k = "int" /\ v.ty = "u32" -> serialize_u32(st, v.n)
      [] v.k = "int" /\ v.ty = "u64" -> serialize_u64(st, v.n)
      [] v.k = "float" /\ v.ty = "f32" -> serialize_f32(st, v)
      [] v.k = "float" /\ v.ty = "f64" -> serialize_f64(st, v)
      [] v.k = "char" -> serialize_char(st, v.c)
      [] v.k = "bytes" -> serialize_bytes(st, v.s)
      [] v.k = "unit_struct" -> serialize_unit_struct(st)
      [] v.k = "str" -> serialize_str(st, v.s)
      [] v.k = "unit" -> serialize_unit(st)
      [] v.k = "none" -> serialize_none(st)
      [] v.k = "some" -> serialize_some(st, v.v)
      [] v.k = "unit_variant" -> serialize_unit_variant(st, v.variant)
      [] v.k = "newtype_variant" -> serialize_newtype_variant(st, v.variant, v.v)
      [] v.k \in {"seq", "tuple"} -> serialize_seq(st, v.elems)
      [] v.k = "tuple_variant" -> serialize_tuple_variant(st, v.variant, v.elems)
      [] v.k = "map" -> serialize_map(st, v.m)
      [] v.k = "struct" -> serialize_struct(st, v.fields)
      [] OTHER -> serialize_struct_variant(st, v.variant, v.fields)

LogExit(done, kind, ref) ==
    IF done.status # "ok" THEN done
    ELSE [done EXCEPT !.trace = Append(@, Event("exit", kind, done, <<>>, ref))]

Serialize(st, v) ==
    IF st.status # "ok" THEN st
    ELSE LogExit(Dispatch(Log(st, "enter", v.k, <<>>), v), v.k, Len(st.trace) + 1)

to_fs(f, value) == Serialize(Serializer_new(f), value)

----------------------------------------------------------------------------
(* Value shapes and schemas of the checked instance                        *)
(*                                                                         *)
(* A value is a record tagged by k, the serde data-model shape.  A schema  *)
(* (the Rust type a value is decoded into) is a record tagged by t.        *)

VBool(b) == [k |-> "bool", b |-> b]

VInt(ty, n) == [k |-> "int", ty |-> ty, n |-> n]

\* a float: sign, digits of the integer part, digits of the fraction; `narrowed` tells that the
\* value went through an f32 that could not hold it exactly
VFloat(ty, neg, int, frac) ==
    [k |-> "float", ty |-> ty, neg |-> neg, int |-> int, frac |-> frac, narrowed |-> FALSE]

VChar(c) == [k |-> "char", c |-> c]

VBytes(s) == [k |-> "bytes", s |-> s]

VUnitStruct == [k |-> "unit_struct"]

VStr(s) == [k |-> "str", s |-> s]

VUnit == [k |-> "unit"]

VNone == [k |-> "none"]

VSome(v) == [k |-> "some", v |-> v]

VSeq(elems) == [k |-> "seq", elems |-> elems]

VTuple(elems) == [k |-> "tuple", elems |-> elems]

VMap(m) == [k |-> "map", m |-> m]

VStruct(fields) == [k |-> "struct", fields |-> fields]

VUnitVariant(variant) == [k |-> "unit_variant", variant |-> variant]

VNewtypeVariant(variant, v) == [k |-> "newtype_variant", variant |-> variant, v |-> v]

VTupleVariant(variant, elems) == [k |-> "tuple_variant", variant |-> variant, elems |-> elems]

VStructVariant(variant, fields) == [k |-> "struct_variant", variant |-> variant, fields |-> fields]

Field(name, v) == [name |-> name, v |-> v]

NoValue == [k |-> "novalue"]

TBool == [t |-> "bool"]

TInt(ty) == [t |-> ty]

TFloat(ty) == [t |-> ty]

TChar == [t |-> "char"]

TBytes == [t |-> "bytes"]

TUnitStruct == [t |-> "unit_struct"]

TStr == [t |-> "str"]

TUnit == [t |-> "unit"]

TIgnored == [t |-> "ignored"]

TIdent == [t |-> "ident"]

TOpt(of) == [t |-> "opt", of |-> of]

TSeq(of) == [t |-> "seq", of |-> of]

TTuple(of) == [t |-> "tuple", of |-> of]

\* a String key drawn from the given texts
TKey(texts) == [t |-> "str", of |-> texts]

TMap(key, val) == [t |-> "map", key |-> key, val |-> val]

TStruct(fields) == [t |-> "struct", fields |-> fields]

TEnum(variants) == [t |-> "enum", variants |-> variants]

TField(name, ty) == [name |-> name, ty |-> ty]

UnitV(name) == [name |-> name, shape |-> "unit"]

NewtypeV(name, ty) == [name |-> name, shape |-> "newtype", ty |-> ty]

TupleV(name, of) == [name |-> name, shape |-> "tuple", of |-> of]

StructV(name, fields) == [name |-> name, shape |-> "struct", fields |-> fields]

\* the numbers, characters and strings values are built from
IntSamples(ty) ==
    CASE ty = "u32" -> {7, 14}
      [] ty = "u8" -> {14}
      [] ty = "i8" -> {0 - 128}
      [] ty = "i16" -> {0 - 32768}
      [] ty = "i32" -> {0 - 2147483647}
      [] ty = "i64" -> {2147483647}
      [] ty = "u16" -> {65535}
      [] OTHER -> {1}

StrSamples == {<<>>, <<"a">>, <<"b">>}

CharSamples == {"c", "U+00E9"}

KeySamples(ty) ==
    IF "of" \in DOMAIN ty /\ ty.t = "str" THEN {VStr(s) : s \in ty.of}
    ELSE IF ty.t = "str" THEN {VStr(<<"k">>), VStr(<<"l">>)}
    ELSE IF ty.t = "u32" THEN {VInt("u32", 1), VInt("u32", 20)}
    ELSE ValuesOf(ty)

\* all element lists whose i-th element is a value of the i-th schema
ProductOf(types, i) ==
    IF i > Len(types) THEN {<<>>}
    ELSE {<<x>> \o rest : x \in ValuesOf(types[i]), rest \in ProductOf(types, i + 1)}

FieldsOf(fields, i) ==
    IF i > Len(fields) THEN {<<>>}
    ELSE {<<Field(fields[i].name, x)>> \o rest :
            x \in ValuesOf(fields[i].ty), rest \in FieldsOf(fields, i + 1)}

VariantValues(var) ==
    CASE var.shape = "unit" -> {VUnitVariant(var.name)}
      [] var.shape = "newtype" -> {VNewtypeVariant(var.name, x) : x \in ValuesOf(var.ty)}
      [] var.shape = "tuple" -> {VTupleVariant(var.name, e) : e \in ProductOf(var.of, 1)}
      [] OTHER -> {VStructVariant(var.name, f) : f \in FieldsOf(var.fields, 1)}

\* the values of a schema, within the bounds
ValuesOf(ty) ==
    CASE ty.t = "bool" -> {VBool(TRUE), VBool(FALSE)}
      [] ty.t \in IntTypes -> {VInt(ty.t, n) : n \in IntSamples(ty.t)}
      [] ty.t \in {"f32", "f64"} -> {VFloat(ty.t, FALSE, <<"1">>, <<"5">>)}
      [] ty.t = "char" -> {VChar(c) : c \in CharSamples}
      [] ty.t = "bytes" -> {VBytes(<<"a">>)}
      [] ty.t = "unit_struct" -> {VUnitStruct}
      [] ty.t = "str" -> {VStr(s) : s \in StrSamples}
      [] ty.t = "unit" -> {VUnit}
      [] ty.t = "opt" -> {VNone} \cup {VSome(x) : x \in ValuesOf(ty.of)}
      [] ty.t = "seq" ->
            {VSeq(e) : e \in UNION {[1..n -> ValuesOf(ty.of)] : n \in 0..MaxSeqLen}}
      [] ty.t = "tuple" -> {VTuple(e) : e \in ProductOf(ty.of, 1)}
      [] ty.t = "map" ->
            {VMap(m) : m \in UNION {[K -> ValuesOf(ty.val)] : K \in SUBSET KeySamples(ty.key)}}
      [] ty.t = "struct" -> {VStruct(f) : f \in FieldsOf(ty.fields, 1)}
      [] OTHER -> UNION {VariantValues(ty.variants[i]) : i \in 1..Len(ty.variants)}

----------------------------------------------------------------------------
(* Deserializer (de.rs) *)

\* the byte that makes a content invalid UTF-8
BadByte == "\\xFF"

\* The order in which read_dir returns the entries of a directory is not
\* specified: `ord` ranks the positions of an arbitrary enumeration of the
\* entries, and the listing returns them by increasing rank.
Rank(ord, i) == IF i <= Len(ord) THEN ord[i] ELSE i

Listing(f, p, ord) ==
    LET c == SetToSeq(read_dir(f, p).v)
        m == Len(c)
        \* the position whose rank is the i-th smallest
        at(i) == CHOOSE j \in 1..m :
                    Cardinality({k \in 1..m : Rank(ord, k) < Rank(ord, j)}) = i - 1
    IN  [i \in 1..m |-> c[at(i)]]

Deserializer_from_fs(f, ord) ==
    [fs |-> f, ord |-> ord, path |-> <<>>, expect_json |-> FALSE,
     status |-> "ok", val |-> NoValue, probes |-> {}, at |-> <<>>]

\* probes records the paths a storage call was made on; no operator reads it
Probe(d) == [d EXCEPT !.probes = @ \cup {d.path}]

Return(d, v) == [d EXCEPT !.val = v]

de_push(d, segment) == [d EXCEPT !.path = Append(@, segment)]

de_pop(d) == [d EXCEPT !.path = Parent(@)]

read_bytes(d) == fs_read(d.fs, d.path)

\* fs::metadata follows links, so what it describes is never a symlink and
\* the is_symlink() test never succeeds
points_to_file(d) ==
    LET m == metadata(d.fs, d.path)
    IN  IF m.kind = "none" THEN [status |-> "IoError", v |-> FALSE]
        ELSE IF m.kind = "link" THEN [status |-> "EncounteredSymlink", v |-> FALSE]
        ELSE [status |-> "ok", v |-> m.kind = "file"]

\* a variant of current_path_exists that reads an empty file as absence
current_path_exists_empty_is_absent(d) ==
    metadata(d.fs, d.path).kind # "none" /\ fs_read(d.fs, d.path) # [status |-> "ok", v |-> <<>>]

current_path_exists(d) == metadata(d.fs, d.path).kind # "none"

read_string(d) ==
    LET bytes == read_bytes(d)
    IN  IF bytes.status # "ok" THEN bytes
        ELSE IF \E i \in 1..Len(bytes.v) : bytes.v[i] = BadByte
        THEN [status |-> "InvalidUnicode", v |-> <<>>]
        ELSE bytes

\* a variant of path_exists that looks at the sequence's own location
path_exists_of_parent(d) == metadata(d.fs, Parent(d.path)).kind # "none"

path_exists(d) == metadata(d.fs, d.path).kind # "none"

\* a variant of push_first_dir_entry that takes the last listed entry
push_last_dir_entry(d) ==
    IF read_dir(d.fs, d.path).status # "ok" THEN Fail(d, "panic")
    ELSE LET entries == Listing(d.fs, d.path, d.ord)
         IN  IF entries = <<>> THEN Fail(d, "EmptyDirectory")
             ELSE de_push(d, entries[Len(entries)])

push_first_dir_entry(d) ==
    IF read_dir(d.fs, d.path).status # "ok" THEN Fail(d, "panic")
    ELSE LET entries == Listing(d.fs, d.path, d.ord)
         IN  IF entries = <<>> THEN Fail(d, "EmptyDirectory")
             ELSE IF \E i \in 1..Len(entries[1]) : entries[1][i] = BadByte
             THEN Fail(d, "InvalidUnicode")
             ELSE de_push(d, entries[1])

deserialize_bool(d) ==
    LET s == read_string(Probe(d))
    IN  IF s.status # "ok" THEN Fail(Probe(d), s.status)
        ELSE IF s.v = <<"t", "r", "u", "e">> THEN Return(Probe(d), VBool(TRUE))
        ELSE IF s.v = <<"f", "a", "l", "s", "e">> THEN Return(Probe(d), VBool(FALSE))
        ELSE Fail(Probe(d), "InvalidBool")

\* a variant of deserialize_int that parses every width as an i64
deserialize_int_as_i64(d, ty) ==
    LET s == read_string(Probe(d))
        n == parse_int(s.v, "i64")
    IN  IF s.status # "ok" THEN Fail(Probe(d), s.status)
        ELSE IF ~n.ok THEN Fail(Probe(d), "ParseError")
        ELSE Return(Probe(d), VInt(ty, n.n))

\* Deserializer::parse for an integer type, then visit_<that type>
deserialize_int(d, ty) ==
    LET s == read_string(Probe(d))
        n == parse_int(s.v, ty)
    IN  IF s.status # "ok" THEN Fail(Probe(d), s.status)
        ELSE IF ~n.ok THEN Fail(Probe(d), "ParseError")
        ELSE Return(Probe(d), VInt(ty, n.n))

\* whether an f32 holds the float exactly (the fractions of the checked set)
exact_in_f32(x) == x.frac \in {<<>>, <<"5">>, <<"2", "5">>, <<"7", "5">>}

\* Deserializer::parse::<f32>, then visit_f32
deserialize_f32(d) ==
    LET s == read_string(Probe(d))
        x == parse_float(s.v)
    IN  IF s.status # "ok" THEN Fail(Probe(d), s.status)
        ELSE IF ~x.ok THEN Fail(Probe(d), "ParseError")
        ELSE Return(Probe(d), VFloat("f32", x.neg, x.int, x.frac))

\* deserialize_f64 calls visit_f32 too: the text is parsed as an f32
deserialize_f64(d) ==
    LET s == read_string(Probe(d))
        x == parse_float(s.v)
    IN  IF s.status # "ok" THEN Fail(Probe(d), s.status)
        ELSE IF ~x.ok THEN Fail(Probe(d), "ParseError")
        ELSE Return(Probe(d), [VFloat("f64", x.neg, x.int, x.frac)
                                  EXCEPT !.narrowed = ~exact_in_f32(x)])

deserialize_bytes(d) ==
    LET s == read_bytes(Probe(d))
    IN  IF s.status # "ok" THEN Fail(Probe(d), s.status)
        ELSE Return(Probe(d), VBytes(s.v))

\* Error::EmptyFile(path): `at` is the path the error carries
EmptyFile(d, path) == [Fail(d, "EmptyFile") EXCEPT !.at = path]

\* a variant of deserialize_char that returns the last character
deserialize_char_taking_last(d) ==
    LET s == read_string(Probe(d))
    IN  IF s.status # "ok" THEN Fail(Probe(d), s.status)
        ELSE IF s.v = <<>> THEN EmptyFile(Probe(d), d.path)
        ELSE Return(Probe(d), VChar(s.v[Len(s.v)]))

deserialize_char(d) ==
    LET s == read_string(Probe(d))
    IN  IF s.status # "ok" THEN Fail(Probe(d), s.status)
        ELSE IF s.v = <<>> THEN EmptyFile(Probe(d), d.path)
        ELSE Return(Probe(d), VChar(s.v[1]))

deserialize_string(d) ==
    LET s == read_string(Probe(d))
    IN  IF s.status # "ok" THEN Fail(Probe(d), s.status)
        ELSE Return(Probe(d), VStr(s.v))

\* what a visitor builds from the decoded payload r.val
Visited(r, shape, name) ==
    IF r.status # "ok" THEN r
    ELSE Return(r, CASE shape = "some" -> VSome(r.val)
                     [] shape = "seq" -> VSeq(r.val)
                     [] shape = "tuple" -> VTuple(r.val)
                     [] shape = "map" -> VMap(r.val)
                     [] shape = "struct" -> VStruct(r.val)
                     [] shape = "newtype_variant" -> VNewtypeVariant(name, r.val)
                     [] shape = "tuple_variant" -> VTupleVariant(name, r.val)
                     [] OTHER -> VStructVariant(name, r.val))

deserialize_option(d, of) ==
    IF current_path_exists(Probe(d))
    THEN Visited(De(Probe(d), of), "some", <<>>)
    ELSE Return(Probe(d), VNone)

deserialize_unit(d) == Return(d, VUnit)

deserialize_unit_struct(d) == Return(d, VUnitStruct)

deserialize_ignored_any(d) == deserialize_unit(d)

(* A SeqAccess or MapAccess is modelled together with the visitor driving *)
(* it: `acc` is what the visitor has collected so far, `some` whether the  *)
(* last next_element / next_key call returned Some.                        *)
SequentialDeserializer_new(d) == [index |-> 0, de |-> d, some |-> TRUE, acc |-> <<>>]

deserialize_next(sq, ty) ==
    LET pushed == Probe(de_push(sq.de, itoa(sq.index)))
    IN  IF ~path_exists(pushed)
        THEN [sq EXCEPT !.de = de_pop(pushed), !.some = FALSE]
        ELSE [sq EXCEPT !.index = @ + 1, !.de = de_pop(De(pushed, ty)), !.some = TRUE]

\* the visitor keeps the element that next_element returned
Collect(next) ==
    IF next.de.status = "ok" /\ next.some
    THEN [next EXCEPT !.acc = Append(@, next.de.val)]
    ELSE next

\* Vec's visitor: next_element until it returns None
VisitSeqVec(sq, ty) ==
    IF sq.de.status # "ok" THEN sq.de
    ELSE IF ~sq.some THEN Return(sq.de, sq.acc)
    ELSE VisitSeqVec(Collect(deserialize_next(sq, ty)), ty)

\* a tuple's visitor: one next_element per position; a missing element is
\* serde's invalid_length error
VisitSeqTuple(sq, types) ==
    IF sq.de.status # "ok" THEN sq.de
    ELSE IF ~sq.some THEN Fail(sq.de, "Serde")
    ELSE IF Len(sq.acc) = Len(types) THEN Return(sq.de, sq.acc)
    ELSE VisitSeqTuple(Collect(deserialize_next(sq, types[Len(sq.acc) + 1])), types)

deserialize_seq(d, of) == Visited(VisitSeqVec(SequentialDeserializer_new(d), of), "seq", <<>>)

deserialize_tuple(d, types) ==
    Visited(VisitSeqTuple(SequentialDeserializer_new(d), types), "tuple", <<>>)

\* MapDeserializer::new: read_dir(..).unwrap() halts unless the path is a
\* directory
MapDeserializer_new(d) ==
    IF read_dir(d.fs, d.path).status # "ok"
    THEN [de |-> Fail(Probe(d), "panic"), it |-> <<>>, some |-> TRUE, key |-> NoValue, acc |-> <<>>]
    ELSE [de |-> Probe(d), it |-> Listing(d.fs, d.path, d.ord), some |-> TRUE,
          key |-> NoValue, acc |-> <<>>]

VariantNames(ty) == {ty.variants[i].name : i \in 1..Len(ty.variants)}

VariantOf(ty, name) ==
    ty.variants[CHOOSE i \in 1..Len(ty.variants) : ty.variants[i].name = name]

FieldNames(fields) == {fields[i].name : i \in 1..Len(fields)}

FieldType(fields, name) ==
    fields[CHOOSE i \in 1..Len(fields) : fields[i].name = name].ty

\* KeyDeserializer: the entry name parsed as the key type.  Key types it
\* forwards to deserialize_any reach unimplemented!().
KeyDeserializer_deserialize(d, inner, ty) ==
    CASE ty.t = "ident" -> Return(d, VStr(inner))
      [] ty.t = "str" -> Return(d, VStr(inner))
      [] ty.t = "bool" ->
            IF inner = <<"t", "r", "u", "e">> THEN Return(d, VBool(TRUE))
            ELSE IF inner = <<"f", "a", "l", "s", "e">> THEN Return(d, VBool(FALSE))
            ELSE Fail(d, "panic")
      [] ty.t \in IntTypes ->
            LET n == parse_int(inner, ty.t)
            IN  IF n.ok THEN Return(d, VInt(ty.t, n.n)) ELSE Fail(d, "ParseError")
      [] ty.t \in {"f32", "f64"} ->
            LET x == parse_float(inner)
            IN  IF x.ok THEN Return(d, VFloat(ty.t, x.neg, x.int, x.frac))
                ELSE Fail(d, "ParseError")
      [] ty.t = "char" ->
            IF inner = <<>> THEN EmptyFile(d, <<>>) ELSE Return(d, VChar(inner[1]))
      [] ty.t = "enum" -> VisitEnum(d, inner, ty)
      [] OTHER -> Fail(d, "panic")

\* the visitor keeps the key that next_key returned
KeepKey(md) == [md EXCEPT !.key = md.de.val]

next_key_seed(md, keyty) ==
    IF md.it = <<>> THEN [md EXCEPT !.some = FALSE]
    ELSE LET name == Head(md.it)
         IN  IF \E i \in 1..Len(name) : name[i] = BadByte
             THEN [md EXCEPT !.de = Fail(md.de, "InvalidUnicode"), !.it = Tail(@)]
             ELSE LET marked == IF starts_with(name, JsonMarker)
                                THEN [md.de EXCEPT !.expect_json = TRUE]
                                ELSE md.de
                  IN  KeepKey([md EXCEPT
                                !.de = KeyDeserializer_deserialize(de_push(marked, name), name, keyty),
                                !.it = Tail(@), !.some = TRUE])

next_value_seed(md, ty) ==
    [md EXCEPT !.de = de_pop([De(md.de, ty) EXCEPT !.expect_json = FALSE])]

\* next_value is called only after next_key returned a key
NextValue(md, ty) ==
    IF md.de.status # "ok" \/ ~md.some THEN md ELSE next_value_seed(md, ty)

\* a map's visitor inserts the entry
Insert(md) ==
    IF md.de.status # "ok" \/ ~md.some THEN md
    ELSE [md EXCEPT !.acc = (md.key :> md.de.val) @@ @]

\* a map's visitor: next_key then next_value until the entries are used up
VisitMapMap(md, ty) ==
    IF md.de.status # "ok" THEN md.de
    ELSE IF ~md.some THEN Return(md.de, md.acc)
    ELSE VisitMapMap(Insert(NextValue(next_key_seed(md, ty.key), ty.val)), ty)

\* what a derived struct visitor returns once the entries are used up:
\* a declared field that never appeared is None when its type is an
\* Option and serde's missing_field error otherwise
FinishStruct(d, fields, got) ==
    IF \E i \in 1..Len(fields) : fields[i].name \notin DOMAIN got /\ fields[i].ty.t # "opt"
    THEN Fail(d, "Serde")
    ELSE Return(d, [i \in 1..Len(fields) |->
                      Field(fields[i].name,
                            IF fields[i].name \in DOMAIN got THEN got[fields[i].name]
                            ELSE VNone)])

\* the type a derived struct visitor asks for the value of an entry: the
\* declared field's type, IgnoredAny for an entry that is no declared field
EntryType(md, fields) ==
    IF md.de.status = "ok" /\ md.some /\ md.key.s \in FieldNames(fields)
    THEN FieldType(fields, md.key.s)
    ELSE TIgnored

\* a derived struct visitor keeps the value of a declared field
InsertField(md, fields) ==
    IF md.de.status # "ok" \/ ~md.some \/ md.key.s \notin FieldNames(fields) THEN md
    ELSE [md EXCEPT !.acc = (md.key.s :> md.de.val) @@ @]

StructValue(key, fields) == InsertField(NextValue(key, EntryType(key, fields)), fields)

\* a derived struct visitor over the entries of a MapDeserializer
VisitMapStruct(md, fields) ==
    IF md.de.status # "ok" THEN md.de
    ELSE IF ~md.some THEN FinishStruct(md.de, fields, md.acc)
    ELSE VisitMapStruct(StructValue(next_key_seed(md, TIdent), fields), fields)

deserialize_map(d, ty) == Visited(VisitMapMap(MapDeserializer_new(d), ty), "map", <<>>)

\* serde_json reading a struct from the file: the struct whose JSON text the
\* content is, within the bounds; any other content is a SerdeJson error
json_deserialize_struct(d, ty) ==
    LET text == read_bytes(d)
    IN  IF text.status # "ok" THEN Fail(d, "IoError")
        ELSE IF \A v \in ValuesOf(ty) : json_to_string(v) # text.v THEN Fail(d, "SerdeJson")
        ELSE Return(d, CHOOSE v \in ValuesOf(ty) : json_to_string(v) = text.v)

deserialize_struct(d, ty) ==
    LET ptf == points_to_file(Probe(d))
    IN  IF ptf.status # "ok" THEN Fail(Probe(d), ptf.status)
        ELSE IF ptf.v
        THEN IF ~d.expect_json THEN Fail(Probe(d), "panic")
             ELSE json_deserialize_struct(Probe(d), ty)
        ELSE IF d.expect_json THEN Fail(Probe(d), "panic")
             ELSE Visited(VisitMapStruct(MapDeserializer_new(Probe(d)), ty.fields), "struct", <<>>)

unit_variant(d, name) == Return(d, VUnitVariant(name))

newtype_variant_seed(d, name, ty) == Visited(De(d, ty), "newtype_variant", name)

tuple_variant(d, name, types) ==
    Visited(VisitSeqTuple(SequentialDeserializer_new(d), types), "tuple_variant", name)

struct_variant(d, name, fields) ==
    Visited(VisitMapStruct(MapDeserializer_new(d), fields), "struct_variant", name)

\* a derived enum visitor on Enum: variant_seed identifies the variant by
\* name (serde's unknown_variant error otherwise), then the payload is read
\* by the accessor of the variant's declared shape
VisitEnum(d, name, ty) ==
    IF d.status # "ok" THEN d
    ELSE IF name \notin VariantNames(ty) THEN Fail(d, "Serde")
    ELSE LET var == VariantOf(ty, name)
         IN  CASE var.shape = "unit" -> unit_variant(d, name)
               [] var.shape = "newtype" -> newtype_variant_seed(d, name, var.ty)
               [] var.shape = "tuple" -> tuple_variant(d, name, var.of)
               [] OTHER -> struct_variant(d, name, var.fields)

\* Result::unwrap
Unwrap(r) == IF r.status # "ok" THEN Fail(r, "panic") ELSE r

\* the name push_first_dir_entry returned
PushedName(pushed) == IF pushed.path = <<>> THEN <<>> ELSE pushed.path[Len(pushed.path)]

\* the directory branch, after push_first_dir_entry()?
EnumInDirectory(pushed, ty) ==
    IF pushed.status # "ok" THEN pushed
    ELSE de_pop(Unwrap(VisitEnum(pushed, PushedName(pushed), ty)))

\* the file branch, on read_string()
EnumInFile(d, s, ty) ==
    IF s.status # "ok" THEN Fail(d, "panic") ELSE Unwrap(VisitEnum(d, s.v, ty))

deserialize_enum(d, ty) ==
    LET ptf == points_to_file(Probe(d))
    IN  IF ptf.status # "ok" THEN Fail(Probe(d), ptf.status)
        ELSE IF ptf.v THEN EnumInFile(Probe(d), read_string(Probe(d)), ty)
        ELSE EnumInDirectory(push_first_dir_entry(Probe(d)), ty)

\* T::deserialize(deserializer): the call serde makes for each schema
De(d, ty) ==
    IF d.status # "ok" THEN d
    ELSE CASE ty.t = "bool" -> deserialize_bool(d)
           [] ty.t \in IntTypes -> deserialize_int(d, ty.t)
           [] ty.t = "f32" -> deserialize_f32(d)
           [] ty.t = "f64" -> deserialize_f64(d)
           [] ty.t = "char" -> deserialize_char(d)
           [] ty.t = "bytes" -> deserialize_bytes(d)
           [] ty.t = "unit_struct" -> deserialize_unit_struct(d)
           [] ty.t = "str" -> deserialize_string(d)
           [] ty.t = "unit" -> deserialize_unit(d)
           [] ty.t = "ignored" -> deserialize_ignored_any(d)
           [] ty.t = "opt" -> deserialize_option(d, ty.of)
           [] ty.t = "seq" -> deserialize_seq(d, ty.of)
           [] ty.t = "tuple" -> deserialize_tuple(d, ty.of)
           [] ty.t = "map" -> deserialize_map(d, ty)
           [] ty.t = "struct" -> deserialize_struct(d, ty)
           [] OTHER -> deserialize_enum(d, ty)

from_fs(f, ord, ty) == De(Deserializer_from_fs(f, ord), ty)

----------------------------------------------------------------------------
(* The checked instance: schemas, prepared trees, listing orders *)

N_int == <<"i", "n", "t">>

N_seq == <<"s", "e", "q">>

N_opt == <<"o", "p", "t">>

N_a == <<"a">>

N_b == <<"b">>

N_c == <<"c">>

N_e == <<"e">>

N_m == <<"m">>

N_s == <<"s">>

N_Unit == <<"U", "n", "i", "t">>

N_Newtype == <<"N", "e", "w", "t", "y", "p", "e">>

N_Tuple == <<"T", "u", "p", "l", "e">>

N_Struct == <<"S", "t", "r", "u", "c", "t">>

N_A == <<"A">>

N_Inner == <<"I", "n", "n", "e", "r">>

N_json == <<"j", "s", "o", "n">>

N_json_comp == <<"j", "s", "o", "n", "_", "c", "o", "m", "p">>

N_json_seq == <<"j", "s", "o", "n", "_", "s", "e", "q">>

N_B == <<"B">>

\* enum E of the tests: Unit, Newtype(u32), Tuple(u32, u32), Struct { a: u32 }
T_E ==
    TEnum(<<UnitV(N_Unit), NewtypeV(N_Newtype, TInt("u32")),
            TupleV(N_Tuple, <<TInt("u32"), TInt("u32")>>),
            StructV(N_Struct, <<TField(N_a, TInt("u32"))>>)>>)

\* enum { Unit, Tuple(u8) }
T_E2 == TEnum(<<UnitV(N_Unit), TupleV(N_Tuple, <<TInt("u8")>>)>>)

\* enum { A, B }, as BasicEnum of the identity test
T_Basic == TEnum(<<UnitV(N_A), UnitV(N_B)>>)

\* struct X { e: E }
T_X == TStruct(<<TField(N_e, T_E)>>)

\* struct Test { int: u32, seq: Vec<String> }
T_Test == TStruct(<<TField(N_int, TInt("u32")), TField(N_seq, TSeq(TStr))>>)

\* struct { e: E, b: u8 }
T_After == TStruct(<<TField(N_e, T_E), TField(N_b, TInt("u8"))>>)

\* struct { opt: Option<String>, b: u8 }
T_Opt == TStruct(<<TField(N_opt, TOpt(TStr)), TField(N_b, TInt("u8"))>>)

\* struct { m: BTreeMap<u32, u8>, s: Vec<u8> }
T_Nested ==
    TStruct(<<TField(N_m, TMap(TInt("u32"), TInt("u8"))), TField(N_s, TSeq(TInt("u8")))>>)

\* struct { c: char, b: bool }
T_Chars == TStruct(<<TField(N_c, TChar), TField(N_b, TBool)>>)

\* struct Basic { json: u8, json_comp: String } of ser.rs tests::test_json
T_JBasic == TStruct(<<TField(N_json, TInt("u8")), TField(N_json_comp, TStr)>>)

\* enum Enum { Inner { json: BTreeMap<String, String> } } of tests::test_json
T_JEnum == TEnum(<<StructV(N_Inner, <<TField(N_json, TMap(TStr, TStr))>>)>>)

\* struct { json_seq: Vec<String> }
T_JSeq == TStruct(<<TField(N_json_seq, TSeq(TStr))>>)

\* struct Inner { json: JsonInner, b: u8 } with JsonInner { a: u32 }, after
\* Inner of the identity test
T_JInner ==
    TStruct(<<TField(N_json, TStruct(<<TField(N_a, TInt("u32"))>>)), TField(N_b, TInt("u8"))>>)

\* a record with one field of every integer width, named after the width
T_Ints ==
    TStruct(<<TField(<<"i", "8">>, TInt("i8")), TField(<<"i", "1", "6">>, TInt("i16")),
              TField(<<"i", "3", "2">>, TInt("i32")), TField(<<"i", "6", "4">>, TInt("i64")),
              TField(<<"u", "8">>, TInt("u8")), TField(<<"u", "1", "6">>, TInt("u16")),
              TField(<<"u", "3", "2">>, TInt("u32")), TField(<<"u", "6", "4">>, TInt("u64"))>>)

\* struct { opt: Option<()>, b: u8 }
T_OptUnit == TStruct(<<TField(N_opt, TOpt(TUnit)), TField(N_b, TInt("u8"))>>)

\* BTreeMap<String, JsonInner> with the keys "json" and "k"
T_JMap == TMap(TKey({N_json, <<"k">>}), TStruct(<<TField(N_a, TInt("u8"))>>))

\* BTreeMap<String, u8> with the keys "", "../x", "/x" and "a/b"
T_OddKeys ==
    TMap(TKey({<<>>, <<".", ".", "/", "x">>, <<"/", "x">>, <<"a", "/", "b">>}), TInt("u8"))

\* struct { m: BTreeMap<String, Vec<u8>>, b: u8 } with the key ""
T_EmptyKey ==
    TStruct(<<TField(N_m, TMap(TKey({<<>>}), TSeq(TInt("u8")))), TField(N_b, TInt("u8"))>>)

\* maps keyed by a float, a bool and a char
KeyedTypes ==
    {TMap(TFloat("f32"), TInt("u8")), TMap(TBool, TInt("u8")), TMap(TChar, TInt("u8"))}

JsonTypes == {T_JBasic, T_JEnum, T_JSeq, T_JInner}

\* the schemas whose values are leaves: one serialize_* call, one file
LeafTypes ==
    {TInt(w) : w \in IntTypes}
        \cup {TBool, TFloat("f32"), TFloat("f64"), TChar, TStr, TBytes, TUnit, TUnitStruct}

Types ==
    {T_E, T_X, T_Test, T_After, T_Opt, T_Nested, T_Chars,
     TSeq(TStr), TSeq(T_E2), TTuple(<<TInt("u8"), TStr>>),
     TMap(TInt("u32"), TStr), TMap(TStr, T_E2), TMap(T_Basic, TInt("u8")),
     TOpt(TStr), T_Ints, T_JMap, T_OptUnit, T_OddKeys, T_EmptyKey} \cup LeafTypes \cup JsonTypes \cup KeyedTypes

\* number of entries of a directory whose listing order is varied
MaxListed == 3

Orders ==
    {o \in [1..MaxListed -> 1..MaxListed] : \A i, j \in 1..MaxListed : o[i] = o[j] => i = j}

\* setup_test of the tests: the tree holding the given files (path, content)
MkTree(files) ==
    LET paths == {x[1] : x \in files}
        dirs == UNION {Prefixes(Parent(q)) : q \in paths}
    IN  [q \in paths \cup dirs |->
            IF q \in paths THEN FileNode((CHOOSE x \in files : x[1] = q)[2]) ELSE DirNode]

\* element files 0..MaxIndex, any of them missing
GapTrees ==
    {MkTree({<<<<itoa(i)>>, <<"a">>>> : i \in I}) : I \in (SUBSET (0..MaxIndex)) \ {{}}}

\* the payload entries of enum E, any of them side by side in one directory
EnumEntries ==
    {{<<<<N_Newtype>>, <<"8">>>>},
     {<<<<N_Tuple, <<"0">>>>, <<"1">>>>, <<<<N_Tuple, <<"1">>>>, <<"2">>>>},
     {<<<<N_Struct, N_a>>, <<"1", "4">>>>}}

EnumTrees == {MkTree(UNION S) : S \in (SUBSET EnumEntries) \ {{}}}

\* a record location holding field e in every form, and field opt
RecordTrees ==
    {MkTree({<<<<N_e>>, N_Unit>>}),
     MkTree({<<<<N_e>>, N_Unit>>, <<<<N_b>>, <<"1", "4">>>>}),
     MkTree({<<<<N_b>>, <<"1", "4">>>>}),
     MkTree({<<<<N_opt>>, <<>>>>, <<<<N_b>>, <<"1", "4">>>>}),
     MkTree({<<<<N_opt>>, <<"a">>>>, <<<<N_b>>, <<"1", "4">>>>}),
     MkTree({<<<<N_opt, <<"0">>>>, <<"a">>>>, <<<<N_b>>, <<"1", "4">>>>}),
     MkTree({<<<<N_int>>, <<"7">>>>, <<<<N_seq, <<"0">>>>, <<"a">>>>, <<<<N_seq, <<"1">>>>, <<"b">>>>}),
     MkTree({<<<<>>, <<"a">>>>})}

\* texts read as integers: `n` is the number a decimal text denotes, `neg`
\* whether it carries a minus sign; kind "huge" is a decimal text beyond
\* every width, kind "bad" a text that is not decimal
IntText(text, kind, neg, n) == [text |-> text, kind |-> kind, neg |-> neg, n |-> n]

IntTexts ==
    {IntText(<<"0">>, "num", FALSE, 0), IntText(<<"7">>, "num", FALSE, 7),
     IntText(<<"0", "0", "7">>, "num", FALSE, 7), IntText(<<"+", "5">>, "num", FALSE, 5),
     IntText(<<"-", "0">>, "num", TRUE, 0), IntText(<<"-", "1">>, "num", TRUE, 0 - 1),
     IntText(<<"1", "2", "7">>, "num", FALSE, 127), IntText(<<"1", "2", "8">>, "num", FALSE, 128),
     IntText(<<"-", "1", "2", "8">>, "num", TRUE, 0 - 128),
     IntText(<<"-", "1", "2", "9">>, "num", TRUE, 0 - 129),
     IntText(<<"2", "5", "5">>, "num", FALSE, 255), IntText(<<"2", "5", "6">>, "num", FALSE, 256),
     IntText(<<"3", "2", "7", "6", "7">>, "num", FALSE, 32767),
     IntText(<<"3", "2", "7", "6", "8">>, "num", FALSE, 32768),
     IntText(<<"-", "3", "2", "7", "6", "8">>, "num", TRUE, 0 - 32768),
     IntText(<<"-", "3", "2", "7", "6", "9">>, "num", TRUE, 0 - 32769),
     IntText(<<"6", "5", "5", "3", "5">>, "num", FALSE, 65535),
     IntText(<<"6", "5", "5", "3", "6">>, "num", FALSE, 65536),
     IntText(<<"2", "1", "4", "7", "4", "8", "3", "6", "4", "7">>, "num", FALSE, 2147483647),
     IntText(<<"1", "8", "4", "4", "6", "7", "4", "4", "0", "7", "3", "7", "0", "9", "5", "5",
               "1", "6", "1", "6">>, "huge", FALSE, 0),
     IntText(<<"-", "9", "2", "2", "3", "3", "7", "2", "0", "3", "6", "8", "5", "4", "7", "7",
               "5", "8", "0", "9">>, "huge", TRUE, 0),
     IntText(<<>>, "bad", FALSE, 0), IntText(<<"+">>, "bad", FALSE, 0),
     IntText(<<"-">>, "bad", FALSE, 0), IntText(<<"1", "x">>, "bad", FALSE, 0),
     IntText(<<" ", "7">>, "bad", FALSE, 0), IntText(<<"1", ".", "5">>, "bad", FALSE, 0),
     IntText(<<"0", "x", "1", "0">>, "bad", FALSE, 0)}

\* the root itself a file: holding a variant name, or a text read as an integer
RootFileTrees == {MkTree({<<<<>>, N_Unit>>})} \cup {MkTree({<<<<>>, x.text>>}) : x \in IntTexts}

\* std::os::unix::fs::symlink(target, path) for each (path, target)
WithLinks(tree, links) ==
    [q \in DOMAIN tree \cup {x[1] : x \in links} |->
        IF \E x \in links : x[1] = q
        THEN LinkNode((CHOOSE x \in links : x[1] = q)[2]) ELSE tree[q]]

\* trees holding a symbolic link: to a file, to nothing, to a directory
LinkTrees ==
    {WithLinks(MkTree({<<<<<<"0">>>>, <<"a">>>>}), {<<<<<<"1">>>>, <<"0">>>>}),
     WithLinks(MkTree({<<<<<<"0">>>>, <<"a">>>>}), {<<<<<<"1">>>>, <<"9">>>>}),
     WithLinks(MkTree({<<<<<<"t">>>>, N_Unit>>}), {<<<<N_e>>, <<"t">>>>}),
     WithLinks(MkTree({<<<<N_int>>, <<"7">>>>, <<<<<<"d">>, <<"0">>>>, <<"a">>>>}),
               {<<<<N_seq>>, <<"d">>>>})}

\* a map location with one entry, named by a word, a bool or a float
KeyTrees ==
    {MkTree({<<<<name>>, <<"1", "4">>>>}) :
        name \in {<<"x">>, <<"t", "r", "u", "e">>, <<"1", ".", "5">>}}

\* a record { c, b } whose file c is empty, or holds more than one character
CharTrees ==
    {MkTree({<<<<N_c>>, text>>, <<<<N_b>>, <<"t", "r", "u", "e">>>>}) :
        text \in {<<>>, <<"c", "d">>, <<"U+00E9", "c">>}}

\* the root is an empty file
EmptyFileTree == MkTree({<<<<>>, <<>>>>})

\* number of elements of the sequence an earlier to_fs left
StaleLen == 3

\* what to_fs(Test { int: 7, seq: ["b", "b", "b"] }) left
StaleTree ==
    MkTree({<<<<N_int>>, <<"7">>>>} \cup {<<<<N_seq, itoa(i - 1)>>, <<"b">>>> : i \in 1..StaleLen})

\* trees that to_fs is called on without removing them first: a file where
\* a sequence goes, a directory where an Option's file goes
OccupiedTrees ==
    {MkTree({<<<<N_seq>>, <<"a">>>>, <<<<N_b>>, <<"1", "4">>>>}),
     MkTree({<<<<N_opt, <<"0">>>>, <<"a">>>>}),
     StaleTree}

\* the schemas of the values written onto an occupied tree
OccupiedTypes == {T_Test, T_Opt, T_X}

SetupTrees ==
    GapTrees \cup EnumTrees \cup RecordTrees \cup RootFileTrees \cup LinkTrees \cup KeyTrees
        \cup OccupiedTrees \cup CharTrees \cup {EmptyFileTree}

----------------------------------------------------------------------------
(* The program: calls of to_fs and from_fs on one root, as the tests make  *)
(* them                                                                    *)

SerView(st) ==
    [path |-> st.path, path_dirty |-> st.path_dirty, dir_level |-> st.dir_level,
     status |-> st.status, trace |-> st.trace]

DeView(d) ==
    [path |-> d.path, expect_json |-> d.expect_json, status |-> d.status,
     val |-> d.val, probes |-> d.probes, at |-> d.at]

ToFsResult(st) == fs' = st.fs /\ ser' = SerView(st)

Call(op, ty, v, ord) == [op |-> op, ty |-> ty, v |-> v, ord |-> ord]

Init ==
    /\ fs = EmptyFs
    /\ ser = SerView(Serializer_new(EmptyFs))
    /\ de = DeView(Deserializer_from_fs(EmptyFs, <<>>))
    /\ last = Call("reset", TUnit, NoValue, <<>>)
    /\ before = EmptyFs

\* remove_dir_all(test_dir)
Reset ==
    /\ last.op # "reset"
    /\ fs' = EmptyFs
    /\ ser' = SerView(Serializer_new(EmptyFs))
    /\ de' = DeView(Deserializer_from_fs(EmptyFs, <<>>))
    /\ last' = Call("reset", TUnit, NoValue, <<>>)
    /\ before' = EmptyFs

\* setup_test(test_dir, files)
Setup ==
    /\ last.op = "reset"
    /\ \E tree \in SetupTrees :
        /\ fs' = tree
        /\ last' = Call("setup", TUnit, NoValue, <<>>)
    /\ UNCHANGED <<ser, de, before>>

\* to_fs(&value, test_dir), into the removed root or onto an occupied tree;
\* `before` keeps the tree the call found
ToFs ==
    /\ \/ last.op = "reset"
       \/ last.op = "setup" /\ fs \in OccupiedTrees
    /\ \E ty \in IF last.op = "reset" THEN Types ELSE OccupiedTypes :
        \E v \in ValuesOf(ty) :
            /\ ToFsResult(to_fs(fs, v))
            /\ last' = Call("to_fs", ty, v, <<>>)
    /\ before' = fs
    /\ UNCHANGED de

\* from_fs::<T>(test_dir)
FromFs ==
    /\ last.op \in {"reset", "setup", "to_fs"}
    /\ \E ty \in Types :
        \E ord \in Orders :
            /\ de' = DeView(from_fs(fs, ord, ty))
            /\ last' = [last EXCEPT !.op = "from_fs", !.ty = ty, !.ord = ord]
    /\ UNCHANGED <<fs, ser, before>>

Next == Reset \/ Setup \/ ToFs \/ FromFs

Spec == Init /\ [][Next]_vars

----------------------------------------------------------------------------
(* The Serializer's cursor methods called one by one on a new Serializer,  *)
(* in any order: what push, pop and write_data do to the dirty flag        *)

\* the Serializer the variables describe
SerState == [fs |-> fs, path |-> ser.path, path_dirty |-> ser.path_dirty,
             dir_level |-> ser.dir_level, status |-> ser.status, trace |-> ser.trace]

MethodCall(op) ==
    /\ ser.status = "ok"
    /\ Len(ser.trace) < MaxCalls
    /\ last' = Call(op, TUnit, NoValue, <<>>)
    /\ UNCHANGED <<de, before>>

Push == MethodCall("push") /\ \E segment \in {N_a, N_b} : ToFsResult(push(SerState, segment))

\* pop is called only after a push
Pop == MethodCall("pop") /\ ser.dir_level > 0 /\ ToFsResult(pop(SerState))

WriteData == MethodCall("write_data") /\ \E s \in {<<>>, <<"x">>} : ToFsResult(write_data(SerState, s))

NextMethod == Push \/ Pop \/ WriteData

SpecMethods == Init /\ [][NextMethod]_vars

----------------------------------------------------------------------------
(* Properties *)

\* to_fs was the last call and returned Ok
Encoded == last.op = "to_fs" /\ ser.status = "ok"

\* from_fs decoded, with the schema of v, what to_fs(v) wrote
RoundTripped ==
    /\ last.op = "from_fs"
    /\ last.v # NoValue
    /\ last.v \in ValuesOf(last.ty)
    /\ ser.status = "ok"

\* the value of the i-th field of the record last handed to to_fs
FieldValue(i) == last.v.fields[i].v

\* positions of the trace where a value of one of the kinds was entered
Entered(kinds) ==
    {i \in DOMAIN ser.trace : ser.trace[i].op = "enter" /\ ser.trace[i].kind \in kinds}

\* positions of the trace where a value of one of the kinds was left
Exited(kinds) ==
    {j \in DOMAIN ser.trace : ser.trace[j].op = "exit" /\ ser.trace[j].kind \in kinds}

\* C1: a value written by to_fs into an empty root and read back by from_fs
\* with the same schema comes back equal
C1_RoundTrip == RoundTripped => (de.status = "ok" /\ de.val = last.v)

\* C2: in a record with a String-typed Option field, encoding None leaves
\* the field's path absent and encoding Some("") leaves an empty file there
C2_OptionCollision ==
    (Encoded /\ last.ty = T_Opt) =>
        /\ FieldValue(1) = VNone => ~Exists(fs, <<N_opt>>)
        /\ FieldValue(1) = VSome(VStr(<<>>)) => fs[<<N_opt>>] = FileNode(<<>>)

C4_FieldsUnderRecord ==
    /\ (Encoded /\ last.v.k = "struct") =>
        \A i \in 1..Len(last.v.fields) :
            \E j \in Entered({FieldValue(i).k}) : ser.trace[j].path = <<last.v.fields[i].name>>
    /\ (Encoded /\ last.v = VStruct(<<Field(N_int, VInt("u32", 7)),
                                       Field(N_seq, VSeq(<<VStr(<<"a">>), VStr(<<"b">>)>>))>>)) =>
        fs = MkTree({<<<<N_int>>, <<"7">>>>, <<<<N_seq, <<"0">>>>, <<"a">>>>,
                     <<<<N_seq, <<"1">>>>, <<"b">>>>})

\* C5: when the encoding of a payload-bearing variant is left, the path and
\* the depth of the cursor are what they were when it was entered
C5_VariantRestoresCursor ==
    Encoded =>
        \A j \in Exited({"newtype_variant", "tuple_variant", "struct_variant"}) :
            /\ ser.trace[j].path = ser.trace[ser.trace[j].ref].path
            /\ ser.trace[j].level = ser.trace[ser.trace[j].ref].level

FirstGap ==
    CHOOSE n \in 0..(MaxIndex + 1) :
        /\ ~Exists(fs, <<itoa(n)>>)
        /\ \A i \in 0..(n - 1) : Exists(fs, <<itoa(i)>>)

\* C7: decoding a sequence of strings whose elements before the first gap
\* are files returns exactly those elements, having visited the indices up
\* to the gap and none beyond it
C7_GapTruncation ==
    (/\ last.op = "from_fs"
     /\ last.ty = TSeq(TStr)
     /\ \A i \in 0..(FirstGap - 1) : IsFile(fs, <<itoa(i)>>)) =>
        /\ de.status = "ok"
        /\ de.val = VSeq([i \in 1..FirstGap |-> VStr(fs[<<itoa(i - 1)>>].data)])
        /\ de.probes = {<<itoa(i)>> : i \in 0..FirstGap}
        /\ de.path = <<>>

C7_Witness ==
    /\ last.op = "from_fs"
    /\ last.ty = TSeq(TStr)
    /\ fs = MkTree({<<<<itoa(i)>>, <<"a">>>> : i \in {0, 1, 2, 4}})
    /\ Len(de.val.elems) = 3
    /\ <<itoa(4)>> \notin de.probes

UnitNames(ty) ==
    {ty.variants[i].name : i \in {j \in 1..Len(ty.variants) : ty.variants[j].shape = "unit"}}

\* C9: a no-payload variant is written as its name at the cursor's location
\* with no segment pushed; an enum decoded at a file holding the name of a
\* no-payload variant is that variant, and nothing below the file is visited
C9_UnitVariantIsLeaf ==
    /\ Encoded =>
        \A i \in Entered({"unit_variant"}) :
            /\ ser.trace[i + 1].op = "write"
            /\ ser.trace[i + 1].path = ser.trace[i].path
            /\ ser.trace[i + 1].data \in UnitNames(T_E) \cup UnitNames(T_Basic)
            /\ ser.trace[i + 2].op = "exit"
            /\ ser.trace[i + 2].ref = i
    /\ (Encoded /\ last.ty \in {T_X, T_After} /\ FieldValue(1).k = "unit_variant") =>
        fs[<<N_e>>] = FileNode(FieldValue(1).variant)
    /\ (/\ last.op = "from_fs"
        /\ last.ty \in {T_E, T_E2, T_Basic}
        /\ IsFile(fs, <<>>)
        /\ fs[<<>>].data \in UnitNames(last.ty)) =>
            /\ de.status = "ok"
            /\ de.val = VUnitVariant(fs[<<>>].data)
            /\ de.probes = {<<>>}
            /\ de.path = <<>>
    /\ (/\ last.op = "from_fs"
        /\ last.ty = T_X
        /\ IsFile(fs, <<N_e>>)
        /\ fs[<<N_e>>].data \in UnitNames(T_E)) =>
            /\ de.status = "ok"
            /\ de.val = VStruct(<<Field(N_e, VUnitVariant(fs[<<N_e>>].data))>>)
            /\ \A p \in de.probes : ~(IsPrefix(<<N_e>>, p) /\ p # <<N_e>>)

C9_Witness ==
    /\ last.op = "from_fs"
    /\ last.ty = T_X
    /\ last.v = VStruct(<<Field(N_e, VUnitVariant(N_Unit))>>)
    /\ fs = MkTree({<<<<N_e>>, N_Unit>>})
    /\ de.val = last.v

\* the entry the listing of the root returns first
FirstListed == Listing(fs, <<>>, last.ord)[1]

\* C10: an enum decoded at a directory is the variant named by the first
\* listed entry, no other entry is visited and the cursor is back at the
\* directory afterwards; a directory written for one variant decodes to it
C10_EnumAtDirectory ==
    /\ (/\ last.op = "from_fs"
        /\ last.ty = T_E
        /\ IsDir(fs, <<>>)
        /\ Children(fs, <<>>) # {}) =>
            /\ \A p \in de.probes : p = <<>> \/ p[1] = FirstListed
            /\ de.status = "ok" => (de.val.variant = FirstListed /\ de.path = <<>>)
            /\ fs \in EnumTrees => de.status = "ok"
            /\ fs = MkTree({<<<<N_Struct, N_a>>, <<"1", "4">>>>}) =>
                de.val = VStructVariant(N_Struct, <<Field(N_a, VInt("u32", 14))>>)
    /\ (RoundTripped /\ last.ty = T_E) => (de.status = "ok" /\ de.val = last.v)

C10_Witness ==
    /\ last.op = "from_fs"
    /\ last.ty = T_E
    /\ Cardinality(Children(fs, <<>>)) = 3
    /\ de.status = "ok"
    /\ de.val.variant = FirstListed
    /\ de.val.variant = N_Struct

----------------------------------------------------------------------------
\* C11: a leaf of any kind (bool, integer of any width, float, char,
\* string, bytes, unit, unit struct, None, variant without payload) handed
\* to to_fs as the top-level value is refused with NotSupportedAtRootLevel,
\* returned as an error value, and nothing is written.
LeafKinds ==
    {"bool", "int", "float", "char", "str", "bytes", "unit", "unit_struct", "none",
     "unit_variant"}

C11_LeafAtRootRefused ==
    (last.op = "to_fs" /\ last.v.k \in LeafKinds)
        => /\ ser.status = "NotSupportedAtRootLevel"
           /\ \A i \in 1..Len(ser.trace) : ser.trace[i].op # "write"

----------------------------------------------------------------------------
\* whether a path is a symbolic link or has one among its ancestors
ThroughLink(p) ==
    \E n \in 1..Len(p) : Exists(fs, SubSeq(p, 1, n)) /\ fs[SubSeq(p, 1, n)].kind = "link"

\* C12: a decode that probes a path that is a symbolic link, or that leads
\* through one, fails with EncounteredSymlink: the link is never followed
\* and the decode never succeeds.
C12_SymlinkRejected ==
    (last.op = "from_fs" /\ \E p \in de.probes : ThroughLink(p))
        => de.status = "EncounteredSymlink"

----------------------------------------------------------------------------
\* the fields of a record or field-set variant whose name starts with the
\* json marker, each with the path of its location below the root
MarkedFields(v) ==
    LET at == IF v.k = "struct" THEN <<>> ELSE <<v.variant>>
    IN  {<<Append(at, v.fields[i].name), v.fields[i].v>> :
            i \in {j \in 1..Len(v.fields) : starts_with(v.fields[j].name, JsonMarker)}}

\* C13: after to_fs of a record or field-set variant, every field whose
\* name starts with "json" is exactly one file at the field's location,
\* holding the JSON document of the whole field value; it was written by a
\* single write, and nothing exists beneath it, whatever the value's shape.
C13_JsonFieldIsOneFile ==
    (Encoded /\ last.ty \in JsonTypes) =>
        /\ \A x \in MarkedFields(last.v) :
            /\ IsFile(fs, x[1])
            /\ fs[x[1]].data = json_to_string(x[2])
            /\ \A q \in DOMAIN fs : IsPrefix(x[1], q) => q = x[1]
            /\ Cardinality({i \in DOMAIN ser.trace :
                    ser.trace[i].op = "write" /\ IsPrefix(x[1], ser.trace[i].path)}) = 1
        /\ last.v = VStruct(<<Field(N_json, VInt("u8", 14)), Field(N_json_comp, VStr(<<"a">>))>>) =>
            /\ fs = MkTree({<<<<N_json>>, <<"1", "4">>>>, <<<<N_json_comp>>, <<"\"", "a", "\"">>>>})
        /\ last.v = VStruct(<<Field(N_json_seq, VSeq(<<VStr(<<"a">>), VStr(<<>>)>>))>>) =>
            fs = MkTree({<<<<N_json_seq>>, <<"[", "\"", "a", "\"", ",", "\"", "\"", "]">>>>})

C13_Witness ==
    /\ Encoded
    /\ last.v = VStructVariant(N_Inner, <<Field(N_json, VMap((VStr(<<"k">>) :> VStr(<<"a">>))))>>)
    /\ fs = MkTree({<<<<N_Inner, N_json>>, <<"{", "\"", "k", "\"", ":", "\"", "a", "\"", "}">>>>})

\* C14: a record, or a field-set variant, with fields marked "json" that
\* to_fs wrote is read back equal by from_fs: the file of a marked field is
\* parsed as a JSON document into the field's type, whatever its shape
\* (scalar, string, sequence, map, record).
C14_JsonFieldDecoded ==
    (RoundTripped /\ last.ty \in JsonTypes) => (de.status = "ok" /\ de.val = last.v)

\* C15: from_fs never halts the process: a decode that fails (a variant
\* name the enum does not have, a payload that does not parse, a map or
\* variant location that is missing or is not a directory) returns an
\* error value.
C15_DecodeNeverHalts == last.op = "from_fs" => de.status # "panic"

\* C16: after a successful to_fs the location of every sequence, tuple,
\* map and record that was encoded, the empty ones included, is a
\* directory, and the location of every leaf is a file.
C16_CompositeIsDirectory ==
    Encoded =>
        /\ \A i \in Entered({"seq", "tuple", "map", "struct"}) : IsDir(fs, ser.trace[i].path)
        /\ \A i \in Entered(LeafKinds) : IsFile(fs, ser.trace[i].path)

----------------------------------------------------------------------------
\* whether the number a decimal text denotes is a value of the integer type
InRange(x, ty) ==
    /\ x.kind = "num"
    /\ x.neg => IsSigned(ty)
    /\ CASE ty = "i8" -> 0 - 128 <= x.n /\ x.n <= 127
          [] ty = "u8" -> 0 <= x.n /\ x.n <= 255
          [] ty = "i16" -> 0 - 32768 <= x.n /\ x.n <= 32767
          [] ty = "u16" -> 0 <= x.n /\ x.n <= 65535
          [] OTHER -> TRUE

\* the text read as an integer that the file at the root holds
RootText == CHOOSE x \in IntTexts : x.text = fs[<<>>].data

\* C17: an integer of any width is written as its decimal text and nothing
\* more, so the widths are indistinguishable in storage and read back
\* equal; a text is decoded as an integer type exactly when it is decimal
\* and the number fits the type, and any other text is a ParseError: no
\* value is ever wrapped or truncated.
C17_IntegersDecimal ==
    /\ (Encoded /\ last.ty = T_Ints) =>
            fs = MkTree({<<<<<<"i", "8">>>>, <<"-", "1", "2", "8">>>>,
                         <<<<<<"i", "1", "6">>>>, <<"-", "3", "2", "7", "6", "8">>>>,
                         <<<<<<"i", "3", "2">>>>, <<"-", "2", "1", "4", "7", "4", "8", "3", "6", "4", "7">>>>,
                         <<<<<<"i", "6", "4">>>>, <<"2", "1", "4", "7", "4", "8", "3", "6", "4", "7">>>>,
                         <<<<<<"u", "8">>>>, <<"1", "4">>>>,
                         <<<<<<"u", "1", "6">>>>, <<"6", "5", "5", "3", "5">>>>,
                         <<<<<<"u", "3", "2">>>>, IF FieldValue(7).n = 7 THEN <<"7">> ELSE <<"1", "4">>>>,
                         <<<<<<"u", "6", "4">>>>, <<"1">>>>})
    /\ (RoundTripped /\ last.ty = T_Ints) => (de.status = "ok" /\ de.val = last.v)
    /\ (/\ last.op = "from_fs"
        /\ last.ty.t \in IntTypes
        /\ IsFile(fs, <<>>)
        /\ \E x \in IntTexts : x.text = fs[<<>>].data) =>
            IF InRange(RootText, last.ty.t)
            THEN de.status = "ok" /\ de.val = VInt(last.ty.t, RootText.n)
            ELSE de.status = "ParseError"

C17_Witness ==
    /\ last.op = "from_fs"
    /\ last.ty = TInt("u8")
    /\ IsFile(fs, <<>>)
    /\ fs[<<>>].data = <<"2", "5", "6">>
    /\ de.status = "ParseError"

----------------------------------------------------------------------------
\* a name that is no integer, no float and no bool: it holds no digit
WordName(name) ==
    /\ \A i \in 1..Len(name) : ~IsDigit(name[i])
    /\ name \notin {<<"t", "r", "u", "e">>, <<"f", "a", "l", "s", "e">>}

\* C18: decoding a map whose only entry has a name that does not parse as
\* the key type returns ParseError as an error value, whether the key type
\* is an integer, a float or a bool.
C18_BadKeyIsParseError ==
    (/\ last.op = "from_fs"
     /\ last.ty.t = "map"
     /\ last.ty.key.t \in IntTypes \cup {"f32", "f64", "bool"}
     /\ IsDir(fs, <<>>)
     /\ \E name \in Children(fs, <<>>) : Children(fs, <<>>) = {name} /\ WordName(name))
        => de.status = "ParseError"

\* C19: encoding a char writes the UTF-8 bytes of that one character, one
\* to four of them, and nothing else.
C19_CharIsItsUtf8Bytes ==
    (Encoded /\ last.ty = T_Chars) =>
        /\ IsFile(fs, <<N_c>>)
        /\ fs[<<N_c>>].data = <<FieldValue(1).c>>

----------------------------------------------------------------------------
\* positions of the trace where a file was written
Writes == {i \in DOMAIN ser.trace : ser.trace[i].op = "write"}

\* the location of the file the i-th call wrote
WrittenAt(i) == Resolve(ser.trace[i].path, <<>>)

\* C20: when to_fs returns an error, every file it wrote before the error
\* exists with the content written, what the tree held before is still
\* there, and nothing else has appeared: no value after the failing one was
\* written.
C20_EncodeFailFast ==
    (last.op = "to_fs" /\ ser.status \notin {"ok", "panic"}) =>
        /\ \A i \in Writes :
            /\ IsFile(fs, WrittenAt(i))
            /\ fs[WrittenAt(i)].data = ser.trace[i].data
        /\ \A p \in DOMAIN before :
            /\ Exists(fs, p)
            /\ (\A i \in Writes : WrittenAt(i) # p) => fs[p] = before[p]
        /\ \A p \in DOMAIN fs \ DOMAIN before :
            \/ \E i \in Writes : IsPrefix(p, WrittenAt(i))
            \/ IsDir(fs, p) /\ p \in Ancestors(Path_parent(ser.path).path)

C20_Witness ==
    /\ last.op = "to_fs"
    /\ ser.status = "IoError"
    /\ before = MkTree({<<<<N_seq>>, <<"a">>>>, <<<<N_b>>, <<"1", "4">>>>})
    /\ ser.path = <<N_seq, <<"0">>>>
    /\ fs[<<N_int>>].data \in {<<"7">>, <<"1", "4">>}
    /\ fs[<<N_seq>>] = FileNode(<<"a">>)

----------------------------------------------------------------------------
\* C21: the dirty flag is false on a new Serializer; push leaves it as it
\* is; pop makes it false; it becomes true only by a write_data that wrote
\* the file at the cursor, and false only by pop; write_data called while
\* it is true halts and leaves storage as it was.
DirtyFlagStep ==
    /\ last.op = "reset" => ~ser.path_dirty
    /\ last'.op = "push" => ser'.path_dirty = ser.path_dirty
    /\ last'.op = "pop" => ~ser'.path_dirty
    /\ (last'.op = "write_data" /\ ser'.status = "ok") =>
            (ser'.path_dirty /\ IsFile(fs', ser.path))
    /\ (ser'.path_dirty /\ ~ser.path_dirty) =>
            (last'.op = "write_data" /\ ser'.status = "ok" /\ IsFile(fs', ser.path))
    /\ (ser.path_dirty /\ ~ser'.path_dirty) => last'.op = "pop"
    /\ (last'.op = "write_data" /\ ser.path_dirty) => (ser'.status = "panic" /\ fs' = fs)

\* C21: every step of push, pop and write_data changes the dirty flag as
\* DirtyFlagStep says: set only by a completed leaf write, cleared only by pop.
C21_DirtyFlag == [][DirtyFlagStep]_vars

C21_Witness ==
    /\ last.op = "write_data"
    /\ ser.status = "panic"
    /\ ser.path_dirty
    /\ ser.dir_level > 0
    /\ IsFile(fs, ser.path)

Structural == {i \in DOMAIN ser.trace : ser.trace[i].op \in {"push", "pop", "write"}}

PrevStructural(i) == {j \in Structural : j < i /\ \A k \in Structural : ~(j < k /\ k < i)}

NextStructural(i) == {j \in Structural : i < j /\ \A k \in Structural : ~(i < k /\ k < j)}

\* C22: no to_fs call stops at the dirty-path halt of write_data, and every
\* leaf write it records was made below the root, directly after a descend
\* and, when the call went on, directly before an ascend.
C22_DirtyHaltUnreachable ==
    last.op = "to_fs" =>
        /\ ~(ser.status = "panic" /\ ser.path_dirty)
        /\ \A i \in Writes :
            /\ ser.trace[i].level > 0
            /\ PrevStructural(i) # {}
            /\ \A j \in PrevStructural(i) : ser.trace[j].op = "push"
            /\ \A j \in NextStructural(i) : ser.trace[j].op = "pop"
            /\ ser.status = "ok" => NextStructural(i) # {}

C22_Witness ==
    /\ last.op = "to_fs"
    /\ ser.status = "ok"
    /\ ~ser.path_dirty
    /\ Cardinality(Writes) >= 3
    /\ \E i \in Writes : ser.trace[i].level >= 2

\* the map of the last call has an entry under the key "json"
HasMarkedKey == last.ty = T_JMap /\ VStr(N_json) \in DOMAIN last.v.m

\* C23: a map entry whose key starts with "json" is one JSON document file
\* after to_fs, and from_fs reads the map back equal.
C23_MarkedKeyRoundTrips ==
    /\ (Encoded /\ HasMarkedKey) => IsFile(fs, <<N_json>>)
    /\ (RoundTripped /\ HasMarkedKey) => (de.status = "ok" /\ de.val = last.v)

\* the decode of such a map stopped at the assertion of deserialize_struct
C23_DecodeHalted == RoundTripped /\ HasMarkedKey /\ de.status = "panic"

\* the three options that hold no data
EmptyOptions == {VNone, VSome(VUnit), VSome(VStr(<<>>))}

\* the last to_fs encoded a record whose field opt is one of them
EmptyOptionEncoded ==
    /\ last.v \in ValuesOf(T_Opt) \cup ValuesOf(T_OptUnit)
    /\ ser.status = "ok"
    /\ FieldValue(1) \in EmptyOptions

\* what an empty file decodes to as an option of the schema
OfEmptyFile(ty) == IF ty = TStr THEN VSome(VStr(<<>>)) ELSE VSome(VUnit)

C25_CharIsFirstCharacter ==
    /\ (RoundTripped /\ last.ty = T_Chars) => (de.status = "ok" /\ de.val = last.v)
    /\ (last.op = "from_fs" /\ last.ty = T_Chars /\ fs \in CharTrees) =>
            IF fs[<<N_c>>].data = <<>>
            THEN de.status = "EmptyFile" /\ de.at = <<N_c>>
            ELSE /\ de.status = "ok"
                 /\ de.val.fields[1].v = VChar(fs[<<N_c>>].data[1])
    /\ (last.op = "from_fs" /\ last.ty = TChar /\ fs = EmptyFileTree) =>
            (de.status = "EmptyFile" /\ de.at = <<>>)

C25_Witness ==
    /\ RoundTripped
    /\ last.ty = T_Chars
    /\ FieldValue(1) = VChar("U+00E9")
    /\ Len(fs[<<N_c>>].data) = 7
    /\ de.val = last.v

\* the decode of an empty file as a Char
C25_EmptyFileWitness ==
    /\ last.op = "from_fs"
    /\ last.ty = T_Chars
    /\ fs \in CharTrees
    /\ de.status = "EmptyFile"
    /\ de.at = <<N_c>>

\* the elements of the sequence the last to_fs encoded, and those decoded
EncodedSeq == last.v.fields[2].v.elems

DecodedSeq == de.val.fields[2].v.elems

\* C26: to_fs removes nothing: every path the tree held before it still
\* exists with its kind; the elements an earlier encode left beyond the
\* new length of a sequence are still there and a later from_fs returns them
\* after the new ones.
C26_NothingRemoved ==
    /\ last.op \in {"to_fs", "from_fs"} =>
            \A p \in DOMAIN before : Exists(fs, p) /\ fs[p].kind = before[p].kind
    /\ (RoundTripped /\ last.ty = T_Test /\ before = StaleTree) =>
            /\ de.status = "ok"
            /\ Len(DecodedSeq) >= StaleLen
            /\ \A i \in 1..Len(EncodedSeq) : DecodedSeq[i] = EncodedSeq[i]
            /\ \A i \in (Len(EncodedSeq) + 1)..StaleLen : DecodedSeq[i] = VStr(<<"b">>)

C26_Witness ==
    /\ RoundTripped
    /\ last.ty = T_Test
    /\ before = StaleTree
    /\ Len(EncodedSeq) = 1
    /\ DecodedSeq = <<VStr(<<"a">>), VStr(<<"b">>), VStr(<<"b">>)>>

\* a location strictly beneath the root
Beneath(at) == at # <<>> /\ at[1] \notin {RootDir, Holder}

\* C27: every file to_fs wrote lies strictly beneath the root, whatever the
\* texts of the map keys, and at every call the cursor holds one component
\* for each descend not yet undone by its ascend.
C27_WritesBeneathRoot ==
    last.op = "to_fs" =>
        /\ \A at \in DOMAIN fs :
                (IsFile(fs, at) /\ (Exists(before, at) => fs[at] # before[at])) => Beneath(at)
        /\ \A i \in DOMAIN ser.trace : Len(ser.trace[i].path) = ser.trace[i].level

\* to_fs of a map with the key "/x" wrote the file x of the root directory
C27_WroteOutside ==
    /\ last.op = "to_fs"
    /\ last.ty = T_OddKeys
    /\ DOMAIN last.v.m = {VStr(<<"/", "x">>)}
    /\ ser.status = "ok"
    /\ fs = (<<RootDir, <<"x">>>> :> FileNode(<<"1", "4">>))

\* the key "" leaves the cursor above the root: the field after the map is
\* written beside the root
C27_EmptyKeyEscapes ==
    /\ last.op = "to_fs"
    /\ last.ty = T_EmptyKey
    /\ ser.status = "ok"
    /\ IsFile(fs, <<Holder, N_b>>)

\* C28: when from_fs returns, with a value or with an error, the cursor of
\* the deserializer is back at the root and expect_json is false.
C28_CursorRestored ==
    (last.op = "from_fs" /\ de.status # "panic") => (de.path = <<>> /\ ~de.expect_json)

\* a map whose entry "json" is not a key of the map's key type: from_fs
\* returns the parse error with the cursor on the entry and the flag set
C28_LeftOnEntry ==
    /\ last.op = "from_fs"
    /\ last.ty = TMap(TInt("u32"), TStr)
    /\ de.status = "ParseError"
    /\ de.path = <<N_json>>
    /\ de.expect_json

============================================================================
